---- MODULE Spec2Model ----
(***************************************************************************)
(* AbesimExposureDataLoader (learning/abesim_data_loader.py): a cursor     *)
(* over a file of ExposureResult records and the batches get_next_batch    *)
(* builds from it.                                                         *)
(*                                                                         *)
(* Representation.  A Timestamp or Duration submessage is                  *)
(* [has, seconds]: `has` is the field's presence on the wire and an        *)
(* absent submessage reads as the default message (seconds = 0).  The      *)
(* scalar `distance` is [has, value] with value 0 when absent, which is    *)
(* what the generated getter returns.  Times are whole seconds (nanos      *)
(* are not modelled), distances are integers.                              *)
(***************************************************************************)
EXTENDS Integers, Sequences, FiniteSets

VARIABLES
  file,                                \* the records of the Riegeli file at file_path
  unconfirmed_exposures,               \* self.unconfirmed_exposures
  window_around_infection_onset_time,  \* self.window_around_infection_onset_time
  selection_window_left,               \* self.selection_window_left
  selection_window_right,              \* self.selection_window_right
  index_reader,                        \* self.index_reader: [pos, open], pos = records read
  frame,                               \* the local lists of the last get_next_batch call
  result,                              \* what the last call gave its caller
  log,                                 \* history: label-list lengths of the calls since (re)open
  first,                               \* history: what the first call after construction gave
  session,                             \* history: what the calls since (re)open delivered and lost
  truncated,                           \* the file ends in an incomplete chunk
  op,                                  \* where the operation in progress stands, line by line
  handles,                             \* readers this loader has opened and not closed
  other                                \* the reader of a second loader over the same file_path

vars == <<file, unconfirmed_exposures, window_around_infection_onset_time,
          selection_window_left, selection_window_right, index_reader,
          frame, result, log, first, session, truncated, op, handles, other>>

config == <<file, unconfirmed_exposures, window_around_infection_onset_time,
            selection_window_left, selection_window_right, truncated>>

(***************************************************************************)
(* Bounds of the model.                                                    *)
(***************************************************************************)
MaxRecords == 3
MaxBatch == 2

(***************************************************************************)
(* The record schema, as the loader reads it.                              *)
(***************************************************************************)
Present(s) == [has |-> TRUE, seconds |-> s]
Absent == [has |-> FALSE, seconds |-> 0]

\* datetime.timedelta(days=n), in seconds
timedelta_days(n) == n * 86400

\* Timestamp.ToDatetime(): the epoch plus the message's seconds; the default
\* message gives the epoch itself.
ToDatetime(ts) == ts.seconds

\* Duration.ToTimedelta(): the message's seconds (0 for the default message).
ToTimedelta(d) == d.seconds

\* timedelta.days: Python normalises a timedelta to days, 0 <= seconds < 86400,
\* so days is the floor of the quotient.
timedelta_days_of(td) == td \div 86400

\* timedelta.seconds: the seconds component left after the days are taken out.
timedelta_seconds_of(td) == td % 86400

\* bool(message): protobuf message classes define neither __bool__ nor __len__,
\* so a submessage read from a record is true whether or not it is set.
MessageTruth(m) == TRUE

\* bool(x) of a float scalar: false exactly for 0.0.
ScalarTruth(x) == x.value # 0

Exposure(type, time, trace, dist, dur, res, dsso) ==
  [exposure_type |-> type, exposure_time |-> time, proximity_trace |-> trace,
   distance |-> dist, duration |-> dur,
   proximity_trace_temporal_resolution |-> res,
   duration_since_symptom_onset |-> dsso]

Record(outcome, test_time, onset, exposures) ==
  [outcome |-> outcome, test_administered_time |-> test_time,
   infection_onset_time |-> onset, exposures |-> exposures]

(***************************************************************************)
(* get_next_batch: the nested predicates (lines 66-77).                    *)
(***************************************************************************)
is_confirmed(exposure) == exposure.exposure_type = "CONFIRMED"

\* Mutant: the unconfirmed_exposures flag is not consulted.
is_valid_unconfirmed_any(exposure) == exposure.exposure_type = "UNCONFIRMED"

is_valid_unconfirmed(exposure) ==
  exposure.exposure_type = "UNCONFIRMED" /\ unconfirmed_exposures

\* Mutant: the left bound is exclusive.
is_contained_in_window_open(exposure, date_window_left, date_window_right) ==
  /\ ToDatetime(exposure.exposure_time) > date_window_left
  /\ ToDatetime(exposure.exposure_time) <= date_window_right

is_contained_in_window(exposure, date_window_left, date_window_right) ==
  /\ ToDatetime(exposure.exposure_time) >= date_window_left
  /\ ToDatetime(exposure.exposure_time) <= date_window_right

_seconds_to_mins(timedelta) == timedelta_seconds_of(timedelta) \div 60

(***************************************************************************)
(* Python's None and a present value, for the second tuple component.      *)
(***************************************************************************)
None == <<>>
Some(x) == <<x>>

(***************************************************************************)
(* Lines 88-108: the window of a record, or the decision to drop it.       *)
(* The elif tests the truth of the submessage object.                      *)
(***************************************************************************)
DateWindow(record) ==
  IF ~window_around_infection_onset_time
  THEN [skip |-> FALSE,
        left |-> ToDatetime(record.test_administered_time)
                   + timedelta_days(-selection_window_left),
        right |-> ToDatetime(record.test_administered_time)
                   + timedelta_days(selection_window_right)]
  ELSE IF MessageTruth(record.infection_onset_time)
  THEN [skip |-> FALSE,
        left |-> ToDatetime(record.infection_onset_time)
                   + timedelta_days(-selection_window_left),
        right |-> ToDatetime(record.infection_onset_time)
                   + timedelta_days(selection_window_right)]
  ELSE [skip |-> TRUE, left |-> 0, right |-> 0]

\* Lines 112-114: the admission test of one exposure.
Admitted(exposure, date_window_left, date_window_right) ==
  /\ is_confirmed(exposure) \/ is_valid_unconfirmed(exposure)
  /\ is_contained_in_window(exposure, date_window_left, date_window_right)

\* Lines 116-120.
DurationSinceSymptomOnsetDay(exposure) ==
  IF MessageTruth(exposure.duration_since_symptom_onset)
  THEN Some(timedelta_days_of(ToTimedelta(exposure.duration_since_symptom_onset)))
  ELSE None

\* Lines 124-127: the fallback path raises when the distance is false.
MissingDistance(exposure) ==
  /\ Len(exposure.proximity_trace) = 0
  /\ ~ScalarTruth(exposure.distance)

\* Lines 124-137: the tuple appended for an admitted exposure that does not raise.
FeatureTuple(exposure) ==
  IF Len(exposure.proximity_trace) = 0
  THEN <<(<<exposure.distance.value>>),
         DurationSinceSymptomOnsetDay(exposure),
         _seconds_to_mins(ToTimedelta(exposure.duration))>>
  ELSE <<exposure.proximity_trace,
         DurationSinceSymptomOnsetDay(exposure),
         _seconds_to_mins(ToTimedelta(exposure.proximity_trace_temporal_resolution))>>

(***************************************************************************)
(* Lines 110-139: the loop over record.exposures.  st is                   *)
(* [batch_exposure_list, exposure_count, raised].                          *)
(***************************************************************************)
RECURSIVE ExposureLoop(_, _, _, _, _)
ExposureLoop(exposures, i, date_window_left, date_window_right, st) ==
  IF i > Len(exposures) THEN st
  ELSE IF Admitted(exposures[i], date_window_left, date_window_right)
  THEN IF MissingDistance(exposures[i])
       THEN [st EXCEPT !.raised = "missing_distance"]
       ELSE ExposureLoop(exposures, i + 1, date_window_left, date_window_right,
              [st EXCEPT !.batch_exposure_list = Append(@, FeatureTuple(exposures[i])),
                         !.exposure_count = @ + 1])
  ELSE ExposureLoop(exposures, i + 1, date_window_left, date_window_right, st)

\* Mutant: every outcome but POSITIVE is labelled 0.
Label_negative(record) ==
  IF record.outcome = "POSITIVE" THEN [raised |-> "none", label |-> 1]
  ELSE [raised |-> "none", label |-> 0]

\* Lines 140-145: the label of a record, or the ValueError.
Label(record) ==
  IF record.outcome = "POSITIVE" THEN [raised |-> "none", label |-> 1]
  ELSE IF record.outcome = "NEGATIVE" THEN [raised |-> "none", label |-> 0]
  ELSE [raised |-> "invalid_label", label |-> 0]

(***************************************************************************)
(* Lines 79-81: the three lists a call starts from.  `sources` and         *)
(* `skipped` are history: the file positions of the records behind the     *)
(* labels, and of the records the call dropped.                            *)
(***************************************************************************)
NewLists ==
  [batch_exposure_list |-> <<>>, batch_label_list |-> <<>>,
   grouping_list |-> <<>>, sources |-> <<>>, skipped |-> <<>>]

\* Mutant: a record without admitted exposures is left out of the batch.
AppendRecord_nonempty(fr, exposure_list, label, exposure_count, p) ==
  IF exposure_count = 0 THEN fr
  ELSE [fr EXCEPT !.batch_exposure_list = exposure_list,
                  !.batch_label_list = Append(@, label),
                  !.grouping_list = Append(@, exposure_count),
                  !.sources = Append(@, p)]

\* Mutant: label and count are put at the front of their lists.
AppendRecord_front(fr, exposure_list, label, exposure_count, p) ==
  [fr EXCEPT !.batch_exposure_list = exposure_list,
             !.batch_label_list = <<label>> \o @,
             !.grouping_list = <<exposure_count>> \o @,
             !.sources = Append(@, p)]

\* Lines 146-147: the record is counted into the batch.
AppendRecord(fr, exposure_list, label, exposure_count, p) ==
  [fr EXCEPT !.batch_exposure_list = exposure_list,
             !.batch_label_list = Append(@, label),
             !.grouping_list = Append(@, exposure_count),
             !.sources = Append(@, p)]

(***************************************************************************)
(* Lines 88-147: one pass of the while body over the record at file        *)
(* position p.  Gives the lists after the pass and whether it raised.      *)
(***************************************************************************)
ProcessRecord(fr, record, p) ==
  LET w == DateWindow(record) IN
  IF w.skip
  THEN [frame |-> [fr EXCEPT !.skipped = Append(@, p)], raised |-> "none"]
  ELSE
    LET ex == ExposureLoop(record.exposures, 1, w.left, w.right,
                [batch_exposure_list |-> fr.batch_exposure_list,
                 exposure_count |-> 0, raised |-> "none"])
        lb == Label(record)
    IN IF ex.raised # "none"
       THEN [frame |-> [fr EXCEPT !.batch_exposure_list = ex.batch_exposure_list],
             raised |-> ex.raised]
       ELSE IF lb.raised # "none"
       THEN [frame |-> [fr EXCEPT !.batch_exposure_list = ex.batch_exposure_list],
             raised |-> lb.raised]
       ELSE [frame |-> AppendRecord(fr, ex.batch_exposure_list, lb.label,
                                    ex.exposure_count, p),
             raised |-> "none"]

(***************************************************************************)
(* The cursor.  On a whole file size() is reached exactly when every       *)
(* record has been read; the incomplete chunk that ends a truncated file   *)
(* counts in size() and is never read.  read_message gives the next        *)
(* record, or nothing when no whole record is left, and then leaves the    *)
(* reader where it is.                                                     *)
(***************************************************************************)
Size == Len(file) + (IF truncated THEN 1 ELSE 0)

read_message(pos) == IF pos < Len(file) THEN <<file[pos + 1]>> ELSE <<>>

\* Mutants of the while condition: one record too many; the two tests joined by or.
LoopCondition_inclusive(fr, batch_size, pos) ==
  Len(fr.batch_label_list) <= batch_size /\ pos # Size

LoopCondition_either(fr, batch_size, pos) ==
  Len(fr.batch_label_list) < batch_size \/ pos # Size

\* Lines 82-83: the while condition.
LoopCondition(fr, batch_size, pos) ==
  Len(fr.batch_label_list) < batch_size /\ pos # Size

(***************************************************************************)
(* Lines 82-149: the while loop of get_next_batch from cursor position     *)
(* pos.  A read that gives nothing while the condition holds repeats       *)
(* without moving the cursor ("no_return").                                *)
(***************************************************************************)
RECURSIVE BatchLoop(_, _, _)
BatchLoop(fr, batch_size, pos) ==
  IF LoopCondition(fr, batch_size, pos)
  THEN LET got == read_message(pos) IN
       IF got = <<>>
       THEN [frame |-> fr, pos |-> pos, raised |-> "no_return"]
       ELSE LET step == ProcessRecord(fr, got[1], pos + 1) IN
            IF step.raised # "none"
            THEN [frame |-> step.frame, pos |-> pos + 1, raised |-> step.raised]
            ELSE BatchLoop(step.frame, batch_size, pos + 1)
  ELSE [frame |-> fr, pos |-> pos, raised |-> "none"]

(***************************************************************************)
(* What the caller of get_next_batch gets: the tuple of line 149, or only  *)
(* the exception when the loop raised.  batch_size, start (the cursor      *)
(* position the call began at) and reset_from (the position a reset_file   *)
(* just before the call left, else -1) are history.                        *)
(***************************************************************************)
\* Mutant: the lists built so far are handed over with the error.
Returned_partial(run, batch_size, start, reset_from) ==
  [call |-> "get_next_batch", batch_size |-> batch_size, start |-> start,
   reset_from |-> reset_from,
   status |-> IF run.raised = "none" THEN "returned" ELSE "raised",
   error |-> run.raised,
   batch_exposure_list |-> run.frame.batch_exposure_list,
   batch_label_list |-> run.frame.batch_label_list,
   grouping_list |-> run.frame.grouping_list,
   sources |-> run.frame.sources]

Returned(run, batch_size, start, reset_from) ==
  IF run.raised = "none"
  THEN [call |-> "get_next_batch", batch_size |-> batch_size, start |-> start,
        reset_from |-> reset_from, status |-> "returned", error |-> "none",
        batch_exposure_list |-> run.frame.batch_exposure_list,
        batch_label_list |-> run.frame.batch_label_list,
        grouping_list |-> run.frame.grouping_list,
        sources |-> run.frame.sources]
  ELSE [call |-> "get_next_batch", batch_size |-> batch_size, start |-> start,
        reset_from |-> reset_from, status |-> "raised", error |-> run.raised,
        batch_exposure_list |-> <<>>, batch_label_list |-> <<>>,
        grouping_list |-> <<>>, sources |-> <<>>]

NoResult(call) ==
  [call |-> call, batch_size |-> 0, start |-> 0, reset_from |-> -1,
   status |-> "none", error |-> "none",
   batch_exposure_list |-> <<>>, batch_label_list |-> <<>>,
   grouping_list |-> <<>>, sources |-> <<>>]

(***************************************************************************)
(* History of the calls since the cursor was (re)opened: the batch size    *)
(* they all used and the label-list length of each.  It is kept only       *)
(* while every call used the same batch size and returned, and for at      *)
(* most MaxCalls calls.                                                    *)
(***************************************************************************)
MaxCalls == MaxRecords + 1

EmptyLog == [size |-> 0, lens |-> <<>>]
Untracked == [size |-> -1, lens |-> <<>>]

Logged(lg, res) ==
  IF /\ lg.size \in {0, res.batch_size}
     /\ res.status = "returned"
     /\ Len(lg.lens) < MaxCalls
  THEN [size |-> res.batch_size, lens |-> Append(lg.lens, Len(res.batch_label_list))]
  ELSE Untracked

(***************************************************************************)
(* History of the cursor since it was (re)opened: the concatenation of     *)
(* the batches returned, the file positions behind them (sources), the     *)
(* positions of the records the calls dropped (skipped), of the records a  *)
(* raising call had counted before it raised (lost), and of the records a  *)
(* call raised at (offenders).                                             *)
(***************************************************************************)
EmptySession ==
  [batch_exposure_list |-> <<>>, batch_label_list |-> <<>>, grouping_list |-> <<>>,
   sources |-> <<>>, skipped |-> {}, lost |-> {}, offenders |-> {}]

Delivered(ss, run) ==
  IF run.raised = "none"
  THEN [ss EXCEPT !.batch_exposure_list = @ \o run.frame.batch_exposure_list,
                  !.batch_label_list = @ \o run.frame.batch_label_list,
                  !.grouping_list = @ \o run.frame.grouping_list,
                  !.sources = @ \o run.frame.sources,
                  !.skipped = @ \cup { run.frame.skipped[i] : i \in DOMAIN run.frame.skipped }]
  ELSE [ss EXCEPT !.skipped = @ \cup { run.frame.skipped[i] : i \in DOMAIN run.frame.skipped },
                  !.lost = @ \cup { run.frame.sources[i] : i \in DOMAIN run.frame.sources },
                  !.offenders = @ \cup {run.pos}]

\* Mutant: a call that raises puts the cursor back where the call began.
CursorAfter_rollback(run, start) ==
  IF run.raised = "none" THEN run.pos ELSE start

(***************************************************************************)
(* Lines 84-85: every read_message moves the reader on, and nothing in     *)
(* get_next_batch moves it back, whether the call returns or raises.       *)
(***************************************************************************)
CursorAfter(run, start) == run.pos

(***************************************************************************)
(* __init__ (line 42) and reset_file (lines 50-51) open a reader at the    *)
(* start of the file.                                                      *)
(***************************************************************************)
RecordReader == [pos |-> 0, open |-> TRUE]

\* No operation of the loader is in progress.
Idle == [pc |-> "idle", batch_size |-> 0, start |-> 0, record |-> <<>>]

(***************************************************************************)
(* The stores and configurations the model is run on.                      *)
(***************************************************************************)
NoDistance == [has |-> FALSE, value |-> 0]
Distance(v) == [has |-> TRUE, value |-> v]

ExposureTypes == {"CONFIRMED", "UNCONFIRMED"}

\* "OTHER" stands for every value of the Outcome enum but the two the code names.
Outcomes == {"POSITIVE", "NEGATIVE", "OTHER"}

TestTime == Present(timedelta_days(3))
OnsetTime == Present(timedelta_days(2))

ExposureTimes ==
  {timedelta_days(d) : d \in 0..5} \cup {43200}

\* trace, distance, duration, resolution, duration since symptom onset
Shapes ==
  { <<(<<2, 3>>), NoDistance,  Absent,         Present(90000), Absent>>,
    <<(<<>>),     Distance(1), Present(1800),  Present(0),     Present(0)>>,
    <<(<<>>),     Distance(0), Present(90000), Absent,         Present(180000)>>,
    <<(<<>>),     NoDistance,  Absent,         Present(0),     Present(-129600)>> }

Exposures ==
  { Exposure(ty, Present(t), sh[1], sh[2], sh[3], sh[4], sh[5]) :
      ty \in ExposureTypes, t \in ExposureTimes, sh \in Shapes }

\* One record holding one exposure, of every kind.
SingleFiles ==
  { <<Record(o, TestTime, onset, <<e>>)>> :
      o \in Outcomes, onset \in {Absent, OnsetTime}, e \in Exposures }

Trace(ty, t) ==
  Exposure(ty, Present(t), <<2, 3>>, NoDistance, Absent, Present(300), Absent)
Fallback(ty, t, dist) ==
  Exposure(ty, Present(t), <<>>, dist, Present(1800), Present(0), Present(0))

RecordPool ==
  { Record("OTHER", TestTime, OnsetTime, <<>>),
    Record("NEGATIVE", TestTime, OnsetTime,
           <<Fallback("UNCONFIRMED", timedelta_days(2), Distance(1)),
             Trace("CONFIRMED", timedelta_days(5))>>),
    Record("POSITIVE", TestTime, Absent,
           <<Fallback("CONFIRMED", timedelta_days(2), NoDistance)>>),
    Record("POSITIVE", TestTime, OnsetTime,
           <<Trace("CONFIRMED", timedelta_days(2)),
             Fallback("UNCONFIRMED", timedelta_days(3), Distance(1))>>) }

SeqsUpTo(S, n) == UNION { [1..k -> S] : k \in 0..n }

PagedFiles == SeqsUpTo(RecordPool, MaxRecords)

SelectionWindows == (0..1) \X (0..1)
PagedWindows == {<<1, 0>>}

BatchSizes == 1..MaxBatch

Init ==
  /\ \E w \in SelectionWindows \cup PagedWindows :
       /\ selection_window_left = w[1]
       /\ selection_window_right = w[2]
       /\ \/ w \in SelectionWindows /\ file \in SingleFiles
          \/ w \in PagedWindows /\ file \in PagedFiles
  /\ unconfirmed_exposures \in BOOLEAN
  /\ window_around_infection_onset_time \in BOOLEAN
  /\ index_reader = RecordReader
  /\ frame = NewLists
  /\ result = NoResult("__init__")
  /\ log = EmptyLog
  /\ first = NoResult("__init__")
  /\ session = EmptySession
  /\ truncated = FALSE
  /\ op = Idle
  /\ handles = 1
  /\ other = RecordReader

(***************************************************************************)
(* get_next_batch(batch_size), lines 63-149.                               *)
(***************************************************************************)
GetNextBatch(batch_size) ==
  LET run == BatchLoop(NewLists, batch_size, index_reader.pos)
      res == Returned(run, batch_size, index_reader.pos,
                      IF result.call = "reset_file" THEN result.start ELSE -1)
  IN /\ run.raised # "no_return"
     /\ index_reader' = [index_reader EXCEPT !.pos = CursorAfter(run, index_reader.pos)]
     /\ frame' = run.frame
     /\ session' = Delivered(session, run)
     /\ result' = res
     /\ log' = Logged(log, res)
     /\ first' = IF first.call = "__init__" THEN res ELSE first
     /\ UNCHANGED <<config, op, handles, other>>

\* Mutant: the reader is not reopened, the cursor stays where it was.
ResetFile_keep ==
  /\ index_reader' = index_reader
  /\ result' = [NoResult("reset_file") EXCEPT !.start = index_reader.pos]
  /\ log' = EmptyLog
  /\ session' = EmptySession
  /\ UNCHANGED <<frame, first>>
  /\ UNCHANGED <<config, op, handles, other>>

(***************************************************************************)
(* reset_file(), lines 47-51.                                              *)
(***************************************************************************)
ResetFile ==
  /\ index_reader' = RecordReader
  /\ result' = [NoResult("reset_file") EXCEPT !.start = index_reader.pos]
  /\ log' = EmptyLog
  /\ session' = EmptySession
  /\ UNCHANGED <<frame, first>>
  /\ UNCHANGED <<config, op, handles, other>>

Next ==
  \/ \E batch_size \in BatchSizes : GetNextBatch(batch_size)
  \/ ResetFile

Spec == Init /\ [][Next]_vars

(***************************************************************************)
(* The loader line by line.  `op` says where the operation in progress     *)
(* stands: "while" before the test of lines 82-83, "body" after the read   *)
(* of lines 84-85, "reopen" between the close of line 49 and the open of   *)
(* lines 50-51, "deleted" after __del__.  A second loader over the same    *)
(* file_path, with the same configuration, runs beside it; of that one     *)
(* only the reader is kept.  The file may end in an incomplete chunk.      *)
(***************************************************************************)
\* Mutant: close() leaves the reader counted as open.
Closed_leak(n, reader) == n

\* close() (lines 45, 49) releases the reader; on a closed reader it does nothing.
Closed(n, reader) == IF reader.open THEN n - 1 ELSE n

StepPool ==
  { Record("OTHER", TestTime, OnsetTime, <<>>),
    Record("POSITIVE", TestTime, OnsetTime,
           <<Trace("CONFIRMED", timedelta_days(2)),
             Fallback("UNCONFIRMED", timedelta_days(3), Distance(1))>>) }

StepFiles == SeqsUpTo(StepPool, MaxRecords)

InitSteps ==
  /\ file \in StepFiles
  /\ truncated \in BOOLEAN
  /\ unconfirmed_exposures = TRUE
  /\ window_around_infection_onset_time \in BOOLEAN
  /\ selection_window_left = 1
  /\ selection_window_right = 0
  /\ index_reader = RecordReader
  /\ frame = NewLists
  /\ result = NoResult("__init__")
  /\ log = EmptyLog
  /\ first = NoResult("__init__")
  /\ session = EmptySession
  /\ op = Idle
  /\ handles = 1
  /\ other = RecordReader

\* get_next_batch hands `run` to its caller (line 149, or the raise).
Leave(run) ==
  LET res == Returned(run, op.batch_size, op.start,
                      IF result.call = "reset_file" THEN result.start ELSE -1)
  IN /\ result' = res
     /\ log' = Logged(log, res)
     /\ first' = IF first.call = "__init__" THEN res ELSE first
     /\ session' = Delivered(session, run)
     /\ op' = Idle

\* Lines 79-81: get_next_batch(batch_size) is entered.
Enter(batch_size) ==
  /\ op.pc = "idle"
  /\ index_reader.open
  /\ op' = [pc |-> "while", batch_size |-> batch_size,
              start |-> index_reader.pos, record |-> <<>>]
  /\ frame' = NewLists
  /\ UNCHANGED <<config, index_reader, result, log, first, session, handles, other>>

\* Lines 82-85: the while condition holds and read_message is called.
ReadNext ==
  /\ op.pc = "while"
  /\ LoopCondition(frame, op.batch_size, index_reader.pos)
  /\ LET got == read_message(index_reader.pos) IN
       /\ op' = [op EXCEPT !.pc = "body", !.record = got]
       /\ index_reader' = [index_reader EXCEPT !.pos = @ + Len(got)]
  /\ UNCHANGED <<config, frame, result, log, first, session, handles, other>>

\* Lines 86-87: the read gave nothing; continue with the while condition.
Continue ==
  /\ op.pc = "body"
  /\ op.record = <<>>
  /\ op' = [op EXCEPT !.pc = "while"]
  /\ UNCHANGED <<config, index_reader, frame, result, log, first, session,
                 handles, other>>

\* Lines 88-147: the rest of the while body on the record read.
Process ==
  /\ op.pc = "body"
  /\ op.record # <<>>
  /\ LET step == ProcessRecord(frame, op.record[1], index_reader.pos) IN
       /\ frame' = step.frame
       /\ IF step.raised = "none"
          THEN /\ op' = [op EXCEPT !.pc = "while", !.record = <<>>]
               /\ UNCHANGED <<result, log, first, session>>
          ELSE Leave([frame |-> step.frame, pos |-> index_reader.pos,
                      raised |-> step.raised])
  /\ UNCHANGED <<config, index_reader, handles, other>>

\* Lines 82-83 and 149: the while condition fails and the lists are returned.
Return ==
  /\ op.pc = "while"
  /\ ~LoopCondition(frame, op.batch_size, index_reader.pos)
  /\ Leave([frame |-> frame, pos |-> index_reader.pos, raised |-> "none"])
  /\ UNCHANGED <<config, index_reader, frame, handles, other>>

\* Line 49: reset_file closes the reader it holds.
CloseReader ==
  /\ op.pc = "idle"
  /\ op' = [Idle EXCEPT !.pc = "reopen", !.start = index_reader.pos]
  /\ handles' = Closed(handles, index_reader)
  /\ index_reader' = [index_reader EXCEPT !.open = FALSE]
  /\ UNCHANGED <<config, frame, result, log, first, session, other>>

\* Lines 50-51: reset_file opens a new reader and keeps it.
OpenReader ==
  /\ op.pc = "reopen"
  /\ index_reader' = RecordReader
  /\ handles' = handles + 1
  /\ result' = [NoResult("reset_file") EXCEPT !.start = op.start]
  /\ log' = EmptyLog
  /\ session' = EmptySession
  /\ op' = Idle
  /\ UNCHANGED <<config, frame, first, other>>

\* Lines 50-51: file_io or RecordReader raises; self.index_reader is not assigned.
OpenFails ==
  /\ op.pc = "reopen"
  /\ result' = [NoResult("reset_file") EXCEPT !.start = op.start,
                                             !.status = "raised", !.error = "open"]
  /\ op' = Idle
  /\ UNCHANGED <<config, index_reader, handles, frame, log, first, session, other>>

\* Lines 44-45: __del__.
Del ==
  /\ op.pc = "idle"
  /\ op' = [Idle EXCEPT !.pc = "deleted"]
  /\ handles' = Closed(handles, index_reader)
  /\ index_reader' = [index_reader EXCEPT !.open = FALSE]
  /\ UNCHANGED <<config, frame, result, log, first, session, other>>

\* get_next_batch(batch_size) of the second loader, on its own reader.
Other_GetNextBatch(batch_size) ==
  LET run == BatchLoop(NewLists, batch_size, other.pos) IN
  /\ other.open
  /\ run.raised # "no_return"
  /\ other' = [other EXCEPT !.pos = CursorAfter(run, other.pos)]
  /\ UNCHANGED <<config, index_reader, frame, result, log, first, session,
                 op, handles>>

\* reset_file() of the second loader.
Other_ResetFile ==
  /\ other' = RecordReader
  /\ UNCHANGED <<config, index_reader, frame, result, log, first, session,
                 op, handles>>

\* The steps of an operation that has begun: the interpreter runs them on.
Running ==
  \/ ReadNext
  \/ Continue
  \/ Process
  \/ Return
  \/ OpenReader
  \/ OpenFails

NextSteps ==
  \/ \E batch_size \in BatchSizes : Enter(batch_size)
  \/ ReadNext
  \/ Continue
  \/ Process
  \/ Return
  \/ CloseReader
  \/ OpenReader
  \/ OpenFails
  \/ Del
  \/ \E batch_size \in BatchSizes : Other_GetNextBatch(batch_size)
  \/ Other_ResetFile

SpecSteps == InitSteps /\ [][NextSteps]_vars /\ WF_vars(Running)

(***************************************************************************)
(* Vocabulary of the properties.                                           *)
(***************************************************************************)
RECURSIVE SumSeq(_)
SumSeq(q) == IF q = <<>> THEN 0 ELSE Head(q) + SumSeq(Tail(q))

AllExposures ==
  UNION { { <<i, j>> : j \in DOMAIN file[i].exposures } : i \in DOMAIN file }

ExposureAt(ij) == file[ij[1]].exposures[ij[2]]

\* The exposure has neither a proximity trace nor a distance the loader accepts.
LacksDistance(e) == e.proximity_trace = <<>> /\ e.distance.value = 0

\* A store whose records are all counted: test-time windows, every outcome
\* POSITIVE or NEGATIVE, no exposure lacking its distance.
NoneSkipped ==
  /\ ~window_around_infection_onset_time
  /\ \A i \in 1..Len(file) : file[i].outcome \in {"POSITIVE", "NEGATIVE"}
  /\ \A ij \in AllExposures : ~LacksDistance(ExposureAt(ij))

Returned_ == result.status = "returned"
Raised_ == result.status = "raised"

(***************************************************************************)
(* C1.  Over a store of N records none of which is skipped, calls of       *)
(* get_next_batch(B) with one fixed B >= 1 from a freshly opened cursor    *)
(* give ceil(N/B) non-empty batches and then an empty one; every batch     *)
(* but the last has B labels, the last has N - B*floor(N/B) labels (B      *)
(* when B divides N), and the lengths sum to N.                            *)
(***************************************************************************)
C1_Pagination ==
  (NoneSkipped /\ log.size >= 1) =>
    LET N == Len(file)
        B == log.size
        full == N \div B
        batches == (N + B - 1) \div B
        k == Len(log.lens)
    IN /\ \A i \in 1..k :
            /\ i < batches => log.lens[i] = B
            /\ (i = batches /\ N % B = 0) => log.lens[i] = B
            /\ (i = batches /\ N % B # 0) => log.lens[i] = N - B * full
            /\ i <= batches => log.lens[i] >= 1
            /\ i > batches => log.lens[i] = 0
       /\ k >= batches => SumSeq(SubSeq(log.lens, 1, batches)) = N

\* Three records read two at a time: 2, then 1, then the empty batch.
C1_Witness ==
  NoneSkipped /\ Len(file) = 3 /\ log.size = 2 /\ log.lens = <<2, 1, 0>>

(***************************************************************************)
(* C2.  Every returned batch has as many group sizes as labels, and the    *)
(* group sizes sum to the number of feature tuples; every record the       *)
(* call read and did not drop has its one label, also when none of its     *)
(* exposures was admitted.                                                 *)
(***************************************************************************)
C2_GroupFeatureConsistency ==
  Returned_ =>
    /\ Len(result.grouping_list) = Len(result.batch_label_list)
    /\ SumSeq(result.grouping_list) = Len(result.batch_exposure_list)
    /\ Len(result.batch_label_list)
         = (index_reader.pos - result.start) - Len(frame.skipped)

\* A batch of two records, one with no admitted exposure and one with some.
C2_Witness ==
  /\ Returned_
  /\ Len(result.batch_label_list) = 2
  /\ \E i, j \in 1..2 : result.grouping_list[i] = 0 /\ result.grouping_list[j] >= 1

(***************************************************************************)
(* C3.  A call that returns gives at most batch_size labels, and fewer     *)
(* only when the cursor is exhausted; a call on an exhausted cursor        *)
(* returns three empty lists and reads nothing; a call raises only for     *)
(* the data of a record it read, never for the end of the stream.          *)
(***************************************************************************)
C3_BatchSizeBound ==
  result.call = "get_next_batch" =>
    /\ Returned_ =>
         /\ Len(result.batch_label_list) <= result.batch_size
         /\ Len(result.batch_label_list) < result.batch_size
              => index_reader.pos = Size
    /\ result.start = Size =>
         /\ Returned_
         /\ result.batch_exposure_list = <<>>
         /\ result.batch_label_list = <<>>
         /\ result.grouping_list = <<>>
         /\ index_reader.pos = result.start
    /\ Raised_ =>
         /\ result.error \in {"missing_distance", "invalid_label"}
         /\ index_reader.pos \in (result.start + 1)..Size

\* A short batch: one label for a request of two, at the end of a longer file.
C3_Witness ==
  /\ Returned_
  /\ result.batch_size = 2
  /\ Len(result.batch_label_list) = 1
  /\ result.start = 2
  /\ index_reader.pos = Size

(***************************************************************************)
(* The records a call read, and the admission rule as the specification    *)
(* words it: the anchor is the test time, or the onset time when the       *)
(* window is set around the infection onset.                               *)
(***************************************************************************)
ReadByCall == (result.start + 1)..index_reader.pos

SeqRange(q) == { q[i] : i \in DOMAIN q }

Anchor(r) ==
  IF window_around_infection_onset_time
  THEN r.infection_onset_time.seconds
  ELSE r.test_administered_time.seconds

WindowLeft(r) == Anchor(r) - selection_window_left * 86400
WindowRight(r) == Anchor(r) + selection_window_right * 86400

InWindow(r, e) ==
  WindowLeft(r) <= e.exposure_time.seconds /\ e.exposure_time.seconds <= WindowRight(r)

TypeAdmissible(e) ==
  \/ e.exposure_type = "CONFIRMED"
  \/ e.exposure_type = "UNCONFIRMED" /\ unconfirmed_exposures

(***************************************************************************)
(* C4.  With the window around the infection onset, a record without an    *)
(* onset time is dropped: it is behind no label of any batch, and a call   *)
(* that returns has one label for each record it read that has an onset    *)
(* time.                                                                   *)
(***************************************************************************)
C4_OnsetSkip ==
  (window_around_infection_onset_time /\ Returned_) =>
    /\ \A p \in SeqRange(result.sources) : file[p].infection_onset_time.has
    /\ Len(result.batch_label_list)
         = Cardinality({ p \in ReadByCall : file[p].infection_onset_time.has })

HasAnchor(r) == ~window_around_infection_onset_time \/ r.infection_onset_time.has

AdmittedWithoutDistance(r) ==
  \E j \in DOMAIN r.exposures :
    /\ TypeAdmissible(r.exposures[j])
    /\ InWindow(r, r.exposures[j])
    /\ r.exposures[j].proximity_trace = <<>>
    /\ ~r.exposures[j].distance.has

C6_MissingDistanceError ==
  (result.call = "get_next_batch" /\ \A p \in ReadByCall : HasAnchor(file[p])) =>
    ( result.error = "missing_distance"
      <=> \E p \in ReadByCall :
            p \notin SeqRange(frame.skipped) /\ AdmittedWithoutDistance(file[p]) )

(***************************************************************************)
(* C7.  A call that raises gives its caller the error alone: none of the   *)
(* lists it had built is returned; and a batch that is returned is made    *)
(* only of the records read by the call that returns it, one label per     *)
(* source in reading order, with no feature tuple left from another call.  *)
(***************************************************************************)
C7_PartialDiscarded ==
  /\ Raised_ =>
       /\ result.batch_exposure_list = <<>>
       /\ result.batch_label_list = <<>>
       /\ result.grouping_list = <<>>
  /\ Returned_ =>
       /\ SeqRange(result.sources) \subseteq ReadByCall
       /\ Len(result.sources) = Len(result.batch_label_list)
       /\ \A i, j \in DOMAIN result.sources : i < j => result.sources[i] < result.sources[j]
       /\ Len(result.batch_exposure_list) = SumSeq(result.grouping_list)

\* The call raised at its second record or later, with a label and a tuple built.
C7_Witness ==
  /\ Raised_
  /\ index_reader.pos >= result.start + 2
  /\ Len(frame.batch_label_list) >= 1
  /\ Len(frame.batch_exposure_list) >= 1
  /\ result.batch_label_list = <<>>

(***************************************************************************)
(* C8.  The window of a record is [anchor - selection_window_left days,    *)
(* anchor + selection_window_right days] with both ends included, the      *)
(* anchor being the test time, or the onset time when the window is set    *)
(* around the infection onset: of a record whose exposures all pass the    *)
(* type test, exactly those within the bounds are counted; one at a bound  *)
(* is counted, one a day outside is not.                                   *)
(***************************************************************************)
C8_WindowInclusive ==
  Returned_ =>
    \A i \in DOMAIN result.sources :
      LET r == file[result.sources[i]] IN
      (HasAnchor(r) /\ \A j \in DOMAIN r.exposures : TypeAdmissible(r.exposures[j])) =>
        /\ result.grouping_list[i]
             = Cardinality({ j \in DOMAIN r.exposures :
                   /\ r.exposures[j].exposure_time.seconds >= WindowLeft(r)
                   /\ r.exposures[j].exposure_time.seconds <= WindowRight(r) })
        /\ Len(r.exposures) = 1 =>
             LET t == r.exposures[1].exposure_time.seconds IN
             /\ t \in {WindowLeft(r), WindowRight(r)} => result.grouping_list[i] = 1
             /\ t \in {WindowLeft(r) - 86400, WindowRight(r) + 86400}
                  => result.grouping_list[i] = 0

\* Window around the onset (day 2), one day to the left: the exposure of day 1,
\* two days before the test, is admitted.
C8_Witness ==
  /\ Returned_
  /\ window_around_infection_onset_time
  /\ selection_window_left = 1
  /\ \E i \in DOMAIN result.sources :
       LET r == file[result.sources[i]] IN
       /\ r.infection_onset_time.has
       /\ Len(r.exposures) = 1
       /\ r.exposures[1].exposure_type = "CONFIRMED"
       /\ r.exposures[1].exposure_time.seconds = WindowLeft(r)
       /\ WindowLeft(r) = r.test_administered_time.seconds - 2 * 86400
       /\ result.grouping_list[i] = 1

(***************************************************************************)
(* C9.  The group size of a counted record is the number of its in-window  *)
(* CONFIRMED exposures, plus the number of its in-window UNCONFIRMED       *)
(* exposures when unconfirmed_exposures is set and plus nothing when it    *)
(* is not.                                                                 *)
(***************************************************************************)
InWindowOfType(r, type) ==
  { j \in DOMAIN r.exposures :
      r.exposures[j].exposure_type = type /\ InWindow(r, r.exposures[j]) }

C9_UnconfirmedGating ==
  Returned_ =>
    \A i \in DOMAIN result.sources :
      LET r == file[result.sources[i]] IN
      HasAnchor(r) =>
        result.grouping_list[i]
          = Cardinality(InWindowOfType(r, "CONFIRMED"))
            + (IF unconfirmed_exposures
               THEN Cardinality(InWindowOfType(r, "UNCONFIRMED")) ELSE 0)

\* Flag off: a record whose in-window exposures are all UNCONFIRMED has its
\* label and a group size of 0.
C9_Witness ==
  /\ Returned_
  /\ ~unconfirmed_exposures
  /\ \E i \in DOMAIN result.sources :
       LET r == file[result.sources[i]] IN
       /\ HasAnchor(r)
       /\ InWindowOfType(r, "UNCONFIRMED") # {}
       /\ InWindowOfType(r, "CONFIRMED") = {}
       /\ result.grouping_list[i] = 0
       /\ result.batch_label_list[i] \in {0, 1}

(***************************************************************************)
(* C10.  reset_file can be called in every state and leaves the cursor at  *)
(* position zero; the get_next_batch(B) call that follows it gives what    *)
(* the first get_next_batch(B) call after construction gave.               *)
(***************************************************************************)
C10_ResetRestarts ==
  /\ ENABLED ResetFile
  /\ result.call = "reset_file" => index_reader.pos = 0
  /\ (result.call = "get_next_batch" /\ result.reset_from >= 0) =>
       /\ result.start = 0
       /\ first.batch_size = result.batch_size =>
            /\ result.status = first.status
            /\ result.error = first.error
            /\ result.batch_exposure_list = first.batch_exposure_list
            /\ result.batch_label_list = first.batch_label_list
            /\ result.grouping_list = first.grouping_list

\* A reset in the middle of the file, then the batch of the first call again.
C10_Witness ==
  /\ Returned_
  /\ result.reset_from >= 1
  /\ result.reset_from < Size
  /\ first.status = "returned"
  /\ first.batch_size = result.batch_size
  /\ Len(result.batch_label_list) >= 1

(***************************************************************************)
(* C11.  While no call has raised since the cursor was (re)opened, the     *)
(* batches returned so far, put end to end, are the stream read so far:    *)
(* one label and one group size for each record that was not dropped, in   *)
(* cursor order and each once, and the feature tuples of each record's     *)
(* admitted exposures in their order within the record.  (Dropped and      *)
(* admitted are taken as the loader takes them.)                           *)
(***************************************************************************)
AdmittedTuples(r) ==
  LET Test(e) == TypeAdmissible(e) /\ InWindow(r, e)
      kept == SelectSeq(r.exposures, Test)
  IN [j \in DOMAIN kept |-> FeatureTuple(kept[j])]

RECURSIVE TuplesOf(_)
TuplesOf(positions) ==
  IF positions = <<>> THEN <<>>
  ELSE AdmittedTuples(file[Head(positions)]) \o TuplesOf(Tail(positions))

C11_SequentialDelivery ==
  session.offenders = {} =>
    /\ SeqRange(session.sources) = (1..index_reader.pos) \ session.skipped
    /\ \A i, j \in DOMAIN session.sources : i < j => session.sources[i] < session.sources[j]
    /\ Len(session.batch_label_list) = Len(session.sources)
    /\ Len(session.grouping_list) = Len(session.sources)
    /\ \A i \in DOMAIN session.sources :
         LET r == file[session.sources[i]] IN
         /\ session.batch_label_list[i] = (IF r.outcome = "POSITIVE" THEN 1 ELSE 0)
         /\ session.grouping_list[i] = Len(AdmittedTuples(r))
    /\ session.batch_exposure_list = TuplesOf(session.sources)

\* Three records delivered by two calls, with different labels, one of the
\* records with two admitted exposures.
C11_Witness ==
  /\ session.offenders = {}
  /\ Returned_
  /\ result.start = 2
  /\ Len(session.sources) = 3
  /\ session.batch_label_list[1] # session.batch_label_list[2]
  /\ \E i \in 1..3 : session.grouping_list[i] = 2

(***************************************************************************)
(* C16.  A call that raises leaves the cursor just after the record it     *)
(* raised at, and no later call goes back: every record up to the cursor   *)
(* is either delivered once, or dropped, or the record a call raised at,   *)
(* or a record that a raising call had counted before it raised, and the   *)
(* last of these are delivered by no call until reset_file.                *)
(***************************************************************************)
Offending(r) ==
  \/ r.outcome \notin {"POSITIVE", "NEGATIVE"}
  \/ \E j \in DOMAIN r.exposures :
       /\ TypeAdmissible(r.exposures[j])
       /\ InWindow(r, r.exposures[j])
       /\ LacksDistance(r.exposures[j])

C16_NoRollback ==
  /\ Raised_ =>
       /\ index_reader.pos \in (result.start + 1)..Size
       /\ index_reader.pos \in session.offenders
       /\ Offending(file[index_reader.pos])
       /\ \A q \in (result.start + 1)..(index_reader.pos - 1) :
            ~Offending(file[q]) /\ q \in session.lost \cup session.skipped
  /\ SeqRange(session.sources) \cup session.lost \cup session.offenders \cup session.skipped
       = 1..index_reader.pos
  /\ Cardinality(SeqRange(session.sources)) = Len(session.sources)
  /\ SeqRange(session.sources) \cap session.lost = {}
  /\ SeqRange(session.sources) \cap session.offenders = {}
  /\ session.lost \cap session.offenders = {}

\* A call counted a record and raised at the next; the call after it starts
\* right behind the offender and delivers what follows.
C16_Witness ==
  /\ Returned_
  /\ result.reset_from = -1
  /\ result.start \in session.offenders
  /\ result.start - 1 \in session.lost
  /\ result.batch_label_list # <<>>

(***************************************************************************)
(* The admitted exposures behind the tuples of a batch, in the order of    *)
(* the tuples.                                                             *)
(***************************************************************************)
AdmittedExposures(r) ==
  LET Test(e) == TypeAdmissible(e) /\ InWindow(r, e)
  IN SelectSeq(r.exposures, Test)

RECURSIVE ExposuresOf(_)
ExposuresOf(positions) ==
  IF positions = <<>> THEN <<>>
  ELSE AdmittedExposures(file[Head(positions)]) \o ExposuresOf(Tail(positions))

AllAnchored == \A p \in SeqRange(result.sources) : HasAnchor(file[p])

(***************************************************************************)
(* C12.  The second component of the tuple of an admitted exposure is      *)
(* None exactly when the exposure has no duration_since_symptom_onset; a   *)
(* duration that is present gives its days, 0 for a present duration of    *)
(* zero.  (Batches over records that have their anchor time.)              *)
(***************************************************************************)
C12_OnsetDurationPresence ==
  (Returned_ /\ AllAnchored) =>
    LET events == ExposuresOf(result.sources) IN
    /\ Len(events) = Len(result.batch_exposure_list)
    /\ \A k \in DOMAIN events :
         LET d == events[k].duration_since_symptom_onset
             day == result.batch_exposure_list[k][2]
         IN /\ day = None <=> ~d.has
            /\ d.has => day = Some(d.seconds \div 86400)

(***************************************************************************)
(* C14.  The third component of the tuple of an admitted exposure is the   *)
(* total seconds of a duration divided by 60, rounded down: of             *)
(* proximity_trace_temporal_resolution when the exposure has a proximity   *)
(* trace, of duration when it has none; also for durations of a day or     *)
(* more.  (Batches over records that have their anchor time.)              *)
(***************************************************************************)
C14_ResolutionMinutes ==
  (Returned_ /\ AllAnchored) =>
    LET events == ExposuresOf(result.sources) IN
    /\ Len(events) = Len(result.batch_exposure_list)
    /\ \A k \in DOMAIN events :
         result.batch_exposure_list[k][3]
           = (IF events[k].proximity_trace # <<>>
              THEN events[k].proximity_trace_temporal_resolution.seconds
              ELSE events[k].duration.seconds) \div 60

(***************************************************************************)
(* C13: at every moment the loader holds at most one open reader, and it   *)
(* is the one self.index_reader names; between the close and the open of   *)
(* reset_file, after a reset_file whose open failed, and after __del__,    *)
(* it holds none; and no step of one loader moves the reader of the other  *)
(* loader over the same file_path.                                         *)
(***************************************************************************)
ResetFailed == op.pc = "idle" /\ result.call = "reset_file" /\ result.status = "raised"

OneHandle ==
  /\ handles \in 0..1
  /\ handles = (IF index_reader.open THEN 1 ELSE 0)
  /\ op.pc \in {"reopen", "deleted"} => handles = 0
  /\ ResetFailed => handles = 0

Independent ==
  /\ other' # other => index_reader' = index_reader /\ handles' = handles
  /\ index_reader' # index_reader => other' = other

C13_OneHandle == []OneHandle /\ [][Independent]_vars

\* A reset_file failed to reopen after records were read, and the second
\* loader stands elsewhere in the file.
C13_Witness ==
  /\ ResetFailed
  /\ handles = 0
  /\ index_reader.pos > 0
  /\ other.open
  /\ other.pos > index_reader.pos

(***************************************************************************)
(* C15: every get_next_batch call that has begun comes to its end, by      *)
(* returning or by raising.                                                *)
(***************************************************************************)
C15_Terminates == (op.pc \in {"while", "body"}) ~> (op.pc = "idle")

====
